---- MODULE Spec2Model ----
(***************************************************************************)
(* SharePointQueryable (packages/sp/src/sharepointqueryable.ts): URL and   *)
(* parent-URL derivation, the query accumulator and its fluent modifiers,  *)
(* aliased-parameter serialization and the request-context builder.        *)
(*                                                                         *)
(* Strings are sequences of one-character strings.  null and undefined are *)
(* one-element sequences whose element is not a character, so that they    *)
(* compare with strings without ever being equal to one.                   *)
(***************************************************************************)
EXTENDS Integers, Sequences, FiniteSets, TLC

VARIABLES
    nodes,   \* heap of queryable nodes, a node's identity is its index
    dicts,   \* heap of Dictionary objects (a node's _query is an index)
    opts,    \* heap of option objects (a node's _options is an index)
    ret,     \* the last call: its name, arguments and return value
    origin,  \* history: for each node, the node it was derived from and how
    hist,    \* history: the fluent calls made so far
    bld      \* the toRequestContext call in progress, and its batch

vars == <<nodes, dicts, opts, ret, origin, hist, bld>>

----------------------------------------------------------------------------
(* Bounds *)

MaxLen == 3
MaxNodes == 3
MaxFrameNodes == 2
MaxFluent == 2
MaxOrderCalls == 3
MaxFrags == 2
MaxSerCalls == 2
MaxSerFluent == 1
MaxPrior == 1

----------------------------------------------------------------------------
(* Strings *)

Null == <<"<null>">>
Undefined == <<"<undefined>">>

Range(s) == {s[i] : i \in DOMAIN s}

SeqsUpTo(S, n) == UNION {[1..k -> S] : k \in 0..n}

StartsWith(s, p) == Len(s) >= Len(p) /\ SubSeq(s, 1, Len(p)) = p

\* String.prototype.lastIndexOf for a one-character needle, 0-based, -1 if absent
RECURSIVE lastIndexFrom(_, _, _)
lastIndexFrom(s, c, i) ==
    IF i = 0 THEN -1
    ELSE IF s[i] = c THEN i - 1
    ELSE lastIndexFrom(s, c, i - 1)

lastIndexOf(s, c) == lastIndexFrom(s, c, Len(s))

\* String.prototype.slice(start, end) with 0 <= start <= end <= length
slice(s, start, end) == SubSeq(s, start + 1, end)

sliceFrom(s, start) == SubSeq(s, start + 1, Len(s))

\* ignoreCase canonicalization of a regular expression without the u flag:
\* a character is compared by its upper-case form
UpperOf ==
    [a |-> "A", b |-> "B", c |-> "C", d |-> "D", e |-> "E", f |-> "F", g |-> "G",
     h |-> "H", i |-> "I", j |-> "J", k |-> "K", l |-> "L", m |-> "M", n |-> "N",
     o |-> "O", p |-> "P", q |-> "Q", r |-> "R", s |-> "S", t |-> "T", u |-> "U",
     v |-> "V", w |-> "W", x |-> "X", y |-> "Y", z |-> "Z"]

Canonicalize(ch) == IF ch \in DOMAIN UpperOf THEN UpperOf[ch] ELSE ch

EqualsIgnoreCase(s, t) ==
    /\ Len(s) = Len(t)
    /\ \A i \in DOMAIN s : Canonicalize(s[i]) = Canonicalize(t[i])

StartsWithIgnoreCase(s, p) ==
    Len(s) >= Len(p) /\ EqualsIgnoreCase(SubSeq(s, 1, Len(p)), p)

----------------------------------------------------------------------------
(* @pnp/common helpers the constructor calls *)

stringIsNullOrEmpty(s) == s = Null \/ s = Undefined \/ s = <<>>

\* an absolute URL has a scheme and host (http://, https://) or is
\* protocol-relative (//)
isUrlAbsolute(url) ==
    \/ StartsWithIgnoreCase(url, <<"h", "t", "t", "p", ":", "/", "/">>)
    \/ StartsWithIgnoreCase(url, <<"h", "t", "t", "p", "s", ":", "/", "/">>)
    \/ StartsWith(url, <<"/", "/">>)

RECURSIVE StripLeading(_)
StripLeading(s) ==
    IF s # <<>> /\ Head(s) = "/" THEN StripLeading(Tail(s)) ELSE s

RECURSIVE StripTrailing(_)
StripTrailing(s) ==
    IF s # <<>> /\ s[Len(s)] = "/" THEN StripTrailing(SubSeq(s, 1, Len(s) - 1)) ELSE s

\* combine(a, b): the two segments with exactly one separator between them,
\* an empty or absent segment ignored
combinePaths(a, b) ==
    IF stringIsNullOrEmpty(b) THEN (IF stringIsNullOrEmpty(a) THEN <<>> ELSE a)
    ELSE IF stringIsNullOrEmpty(a) THEN b
    ELSE StripTrailing(a) \o <<"/">> \o StripLeading(b)

----------------------------------------------------------------------------
(* SharePointQueryable.constructor, string base *)

fromString_swapped(baseUrl, path) ==
    IF isUrlAbsolute(baseUrl) \/ lastIndexOf(baseUrl, "/") < 0
    THEN [parentUrl |-> baseUrl, url |-> combinePaths(baseUrl, path)]
    ELSE IF lastIndexOf(baseUrl, "/") < lastIndexOf(baseUrl, "(")
    THEN LET index == lastIndexOf(baseUrl, "/")
             parentUrl == slice(baseUrl, 0, index)
             path2 == combinePaths(sliceFrom(baseUrl, index), path)
         IN  [parentUrl |-> parentUrl, url |-> combinePaths(parentUrl, path2)]
    ELSE LET index == lastIndexOf(baseUrl, "(")
         IN  [parentUrl |-> slice(baseUrl, 0, IF index < 0 THEN 0 ELSE index),
              url |-> combinePaths(baseUrl, path)]

fromString(baseUrl, path) ==
    IF isUrlAbsolute(baseUrl) \/ lastIndexOf(baseUrl, "/") < 0
    THEN [parentUrl |-> baseUrl, url |-> combinePaths(baseUrl, path)]
    ELSE IF lastIndexOf(baseUrl, "/") > lastIndexOf(baseUrl, "(")
    THEN LET index == lastIndexOf(baseUrl, "/")
             parentUrl == slice(baseUrl, 0, index)
             path2 == combinePaths(sliceFrom(baseUrl, index), path)
         IN  [parentUrl |-> parentUrl, url |-> combinePaths(parentUrl, path2)]
    ELSE LET index == lastIndexOf(baseUrl, "(")
         IN  [parentUrl |-> slice(baseUrl, 0, index),
              url |-> combinePaths(baseUrl, path)]

----------------------------------------------------------------------------
(* Dictionary<string> of @pnp/common: an ordered, key-unique map.          *)
(* A dictionary is a sequence of <<key, value>> pairs in insertion order.  *)

EmptyDict == <<>>

DictKeys(d) == [i \in DOMAIN d |-> d[i][1]]

DictCount(d) == Len(d)

DictHas(d, key) == \E i \in DOMAIN d : d[i][1] = key

\* get(key): the value, or null when the key is absent
DictGet(d, key) ==
    IF DictHas(d, key) THEN d[CHOOSE i \in DOMAIN d : d[i][1] = key][2] ELSE Null

\* add(key, value): overwrites in place, else appends
DictAdd(d, key, value) ==
    IF DictHas(d, key)
    THEN [i \in DOMAIN d |-> IF d[i][1] = key THEN <<key, value>> ELSE d[i]]
    ELSE Append(d, <<key, value>>)

\* merge(other): every entry of other added to d, in other's order
RECURSIVE DictMerge(_, _)
DictMerge(d, other) ==
    IF other = <<>> THEN d
    ELSE DictMerge(DictAdd(d, other[1][1], other[1][2]), Tail(other))

----------------------------------------------------------------------------
(* Option objects: a map from option name to value, Absent where unset *)

Absent == "absent"

OptKeys == {"credentials", "mode"}

EmptyOptions == [k \in OptKeys |-> Absent]

\* mergeOptions(target, source): shallow overlay, the source's entries win
mergeOptions(target, source) ==
    [k \in OptKeys |-> IF source[k] # Absent THEN source[k] ELSE target[k]]

----------------------------------------------------------------------------
(* Nodes *)

NoBatch == "null"

AtTarget == <<"@", "t", "a", "r", "g", "e", "t">>

\* ODataQueryable's constructor: the fields of a node before the
\* SharePointQueryable constructor body runs
BlankNode ==
    [url |-> <<>>, parentUrl |-> <<>>, q |-> EmptyDict, o |-> EmptyOptions,
     batch |-> NoBatch, useCaching |-> FALSE, cachingOptions |-> Null]

\* new SharePointQueryable(baseUrl: string, path)
newFromString(baseUrl, path) ==
    LET r == fromString(baseUrl, path)
    IN  [BlankNode EXCEPT !.url = r.url, !.parentUrl = r.parentUrl]

\* a new object placed on the heaps: it owns a fresh Dictionary and a fresh
\* options object
Alloc(n) ==
    /\ nodes' = Append(nodes,
                       [url |-> n.url, parentUrl |-> n.parentUrl,
                        query |-> Len(dicts) + 1, options |-> Len(opts) + 1,
                        batch |-> n.batch, useCaching |-> n.useCaching,
                        cachingOptions |-> n.cachingOptions])
    /\ dicts' = Append(dicts, n.q)
    /\ opts' = Append(opts, n.o)

NoBuild == [pc |-> "idle"]

NoHist == [n |-> 0, orderBy |-> <<>>, calls |-> 0, prev |-> Undefined, frags |-> <<>>]

\* history of a node creation: where the new node comes from, and its empty
\* log of orderBy calls
Born(from, how) ==
    /\ origin' = Append(origin, [from |-> from, how |-> how])
    /\ hist' = [hist EXCEPT !.orderBy = Append(@, <<>>)]
    /\ UNCHANGED bld

----------------------------------------------------------------------------
(* Specification of the string constructor: one construction per behaviour *)

Slash == <<"/">>

ListItem == <<"w", "e", "b", "/", "i", "t", "e", "m", "s", "(", "1", "9", ")">>
ListItemFields == ListItem \o <<"/", "f", "i", "e", "l", "d", "s">>
ListItems == <<"w", "e", "b", "/", "i", "t", "e", "m", "s">>
Versions == <<"v", "e", "r", "s", "i", "o", "n", "s">>
AbsoluteSite == <<"H", "t", "t", "p", "s", ":", "/", "/", "h", "/", "a", "(", "1", ")", "/", "b">>

CtorBases ==
    SeqsUpTo({"/", "(", "a"}, MaxLen)
        \cup {ListItem, ListItemFields, AbsoluteSite, <<"s", ":", "/", "/", "a">>}

CtorPaths == {Undefined, Null, <<>>, Versions, <<"/", "a">>}

CtorInit ==
    /\ nodes = <<>>
    /\ dicts = <<>>
    /\ opts = <<>>
    /\ ret = [op |-> "none"]
    /\ origin = <<>>
    /\ hist = NoHist
    /\ bld = NoBuild

Construct ==
    /\ nodes = <<>>
    /\ \E baseUrl \in CtorBases, path \in CtorPaths :
          /\ Alloc(newFromString(baseUrl, path))
          /\ ret' = [op |-> "new", baseUrl |-> baseUrl, path |-> path, node |-> 1]
          /\ Born(0, "string")

CtorNext == Construct

SpecCtor == CtorInit /\ [][CtorNext]_vars

\* the claim's reading of the grammar, stated without lastIndexOf and slice
Contains(s, c) == c \in Range(s)

LastPos(s, c) ==
    IF Contains(s, c)
    THEN CHOOSE i \in DOMAIN s : s[i] = c /\ \A j \in DOMAIN s : j > i => s[j] # c
    ELSE 0

Before(s, i) == [k \in 1..(i - 1) |-> s[k]]

From(s, i) == [k \in 1..(Len(s) - i + 1) |-> s[i + k - 1]]

GrammarHolds(baseUrl, path, n) ==
    IF isUrlAbsolute(baseUrl) \/ ~Contains(baseUrl, "/")
    THEN /\ n.parentUrl = baseUrl
         /\ n.url = combinePaths(baseUrl, path)
    ELSE IF LastPos(baseUrl, "/") > LastPos(baseUrl, "(")
    THEN LET parent == Before(baseUrl, LastPos(baseUrl, "/"))
             segment == From(baseUrl, LastPos(baseUrl, "/"))
         IN  /\ n.parentUrl = parent
             /\ n.url = combinePaths(parent, combinePaths(segment, path))
    ELSE /\ n.parentUrl = Before(baseUrl, LastPos(baseUrl, "("))
         /\ n.url = combinePaths(baseUrl, path)

\* C3: for every string base and optional path the constructor gives
\* (url, parentUrl) by the three-rule grammar in priority order: absolute or
\* separator-free base; last '/' after last '('; otherwise the last '(' cut;
\* with the two worked examples of the claim.
C3_ThreeRuleGrammar ==
    ret.op = "new" =>
        /\ GrammarHolds(ret.baseUrl, ret.path, nodes[ret.node])
        /\ (ret.baseUrl = ListItemFields /\ ret.path = Undefined) =>
               /\ nodes[ret.node].parentUrl = ListItem
               /\ nodes[ret.node].url = ListItemFields
        /\ (ret.baseUrl = ListItem /\ ret.path = Versions) =>
               /\ nodes[ret.node].parentUrl = ListItems
               /\ nodes[ret.node].url = ListItem \o Slash \o Versions

C3_Witness ==
    /\ ret.op = "new"
    /\ ret.baseUrl = ListItem
    /\ ret.path = Versions
    /\ nodes[1].parentUrl = ListItems
    /\ nodes[1].url = ListItem \o Slash \o Versions

----------------------------------------------------------------------------
(* Derivation of a node from a node *)

hasBatch(i) == nodes[i].batch # NoBatch

\* ODataQueryable.inBatch(batch) on a node that is in no batch
inBatch(n, b) == [n EXCEPT !.batch = b]

\* ODataQueryable.configure(options)
configure(n, options) == [n EXCEPT !.o = mergeOptions(n.o, options)]

\* ODataQueryable.extend(parent, path): the new node takes the parent's url
\* as its base and a copy of the parent's query entries and options
extendFrom(b, path) ==
    [BlankNode EXCEPT !.parentUrl = nodes[b].url,
                      !.url = combinePaths(nodes[b].url, path),
                      !.q = dicts[nodes[b].query],
                      !.o = mergeOptions(EmptyOptions, opts[nodes[b].options])]

\* new SharePointQueryable(baseUrl: SharePointQueryable, path)
newFromNode(b, path) ==
    LET n == extendFrom(b, path)
        target == DictGet(dicts[nodes[b].query], AtTarget)
    IN  IF target # Null THEN [n EXCEPT !.q = DictAdd(n.q, AtTarget, target)] ELSE n

\* the first argument of new factory(baseUrl, path): a string or a node
BaseString(s) == [kind |-> "string", s |-> s]
BaseNode(b) == [kind |-> "node", node |-> b]

construct(base, path) ==
    IF base.kind = "string" THEN newFromString(base.s, path)
    ELSE newFromNode(base.node, path)

\* common extend(target, source, true) as used by the as-cast: the target
\* receives a snapshot of the source's query entries and options
extendObject(o, i) ==
    [o EXCEPT !.q = dicts[nodes[i].query], !.o = opts[nodes[i].options]]

as(i) == extendObject(newFromString(nodes[i].url, Null), i)

getParent_noTarget(i, baseUrl, path, batchArg) ==
    LET parent == configure(construct(baseUrl, path), opts[nodes[i].options])
    IN  IF batchArg # Undefined THEN inBatch(parent, batchArg[1]) ELSE parent

\* getParent(factory, baseUrl = this.parentUrl, path, batch); batchArg is
\* Undefined or <<batch>>
getParent(i, baseUrl, path, batchArg) ==
    LET parent == configure(construct(baseUrl, path), opts[nodes[i].options])
        target == DictGet(dicts[nodes[i].query], AtTarget)
        p2 == IF target # Null
              THEN [parent EXCEPT !.q = DictAdd(parent.q, AtTarget, target)]
              ELSE parent
    IN  IF batchArg # Undefined THEN inBatch(p2, batchArg[1]) ELSE p2

\* clone(factory, additionalPath, includeBatch = true): the new object
cloneObject(i, additionalPath, includeBatch) ==
    LET c == configure(newFromNode(i, additionalPath), opts[nodes[i].options])
        target == DictGet(dicts[nodes[i].query], AtTarget)
        c2 == IF target # Null
              THEN [c EXCEPT !.q = DictAdd(c.q, AtTarget, target)]
              ELSE c
    IN  IF includeBatch /\ hasBatch(i) THEN inBatch(c2, nodes[i].batch) ELSE c2

\* a clone that keeps the base node's Dictionary and options objects instead
\* of its own
clone_aliased(i, additionalPath, includeBatch) ==
    LET c == cloneObject(i, additionalPath, includeBatch)
    IN  /\ nodes' = Append(nodes,
                           [url |-> c.url, parentUrl |-> c.parentUrl,
                            query |-> nodes[i].query, options |-> nodes[i].options,
                            batch |-> c.batch, useCaching |-> c.useCaching,
                            cachingOptions |-> c.cachingOptions])
        /\ UNCHANGED <<dicts, opts>>

clone(i, additionalPath, includeBatch) ==
    Alloc(cloneObject(i, additionalPath, includeBatch))

----------------------------------------------------------------------------
(* Fluent modifiers of SharePointQueryableCollection (select and expand    *)
(* are the same code on SharePointQueryableInstance)                       *)

FilterKey == <<"$", "f", "i", "l", "t", "e", "r">>
SelectKey == <<"$", "s", "e", "l", "e", "c", "t">>
ExpandKey == <<"$", "e", "x", "p", "a", "n", "d">>
OrderByKey == <<"$", "o", "r", "d", "e", "r", "b", "y">>
SkipKey == <<"$", "s", "k", "i", "p">>
TopKey == <<"$", "t", "o", "p">>
Comma == <<",">>
Asc == <<"a", "s", "c">>
Desc == <<"d", "e", "s", "c">>

\* Array.prototype.join
RECURSIVE join(_, _)
join(parts, sep) ==
    IF parts = <<>> THEN <<>>
    ELSE IF Len(parts) = 1 THEN parts[1]
    ELSE parts[1] \o sep \o join(Tail(parts), sep)

\* Number.prototype.toString for a natural number
Digits == <<"0", "1", "2", "3", "4", "5", "6", "7", "8", "9">>

RECURSIVE numberToString(_)
numberToString(n) ==
    IF n < 10 THEN <<Digits[n + 1]>>
    ELSE numberToString(n \div 10) \o <<Digits[(n % 10) + 1]>>

filter(q, f) == DictAdd(q, FilterKey, f)

select(q, selects) ==
    IF Len(selects) > 0 THEN DictAdd(q, SelectKey, join(selects, Comma)) ELSE q

expand(q, expands) ==
    IF Len(expands) > 0 THEN DictAdd(q, ExpandKey, join(expands, Comma)) ELSE q

Clause(field, ascending) == field \o <<" ">> \o (IF ascending THEN Asc ELSE Desc)

\* an orderBy that stores its own clause without reading the current value
orderBy_overwrite(q, field, args) ==
    DictAdd(q, OrderByKey, Clause(field, IF args = <<>> THEN TRUE ELSE args[1]))

\* orderBy(orderBy, ascending = true); args is <<>> when ascending is omitted
orderBy(q, field, args) ==
    LET ascending == IF args = <<>> THEN TRUE ELSE args[1]
        keys == SelectSeq(DictKeys(q), LAMBDA k : k = OrderByKey)
        query == [i \in DOMAIN keys |-> DictGet(q, keys[i])]
        pushed == Append(query, Clause(field, ascending))
    IN  DictAdd(q, OrderByKey, join(pushed, Comma))

skip(q, n) == DictAdd(q, SkipKey, numberToString(n))

top(q, n) == DictAdd(q, TopKey, numberToString(n))

----------------------------------------------------------------------------
(* Operations on the heap.  Each takes the sets its arguments are drawn    *)
(* from; the specifications below choose the sets.                         *)

Title == <<"T", "i", "t", "l", "e">>
Created == <<"C", "r", "e", "a", "t", "e", "d">>
Id == <<"I", "d">>
FilterText == <<"I", "d", " ", "g", "t", " ", "1">>
TargetUrl == <<"'", "h", "/", "s", "'">>
BatchOne == "batch1"
Credentials == [EmptyOptions EXCEPT !["credentials"] = "include"]

NodeIds == 1..Len(nodes)

Query(i) == dicts[nodes[i].query]

Options(i) == opts[nodes[i].options]

\* one root node, built from a string, with the given accumulator, options
\* and batch
RootInit(queries, options, batches) ==
    \E q \in queries, o \in options, b \in batches :
        LET r == newFromString(ListItem, Undefined)
        IN  /\ nodes = <<[url |-> r.url, parentUrl |-> r.parentUrl, query |-> 1,
                          options |-> 1, batch |-> b, useCaching |-> FALSE,
                          cachingOptions |-> Null]>>
            /\ dicts = <<q>>
            /\ opts = <<o>>
            /\ ret = [op |-> "none"]
            /\ origin = <<[from |-> 0, how |-> "string"]>>
            /\ hist = [NoHist EXCEPT !.orderBy = << <<>> >>]
            /\ bld = NoBuild

NewFromNode(paths) ==
    \E i \in NodeIds, path \in paths :
        /\ Alloc(newFromNode(i, path))
        /\ Born(i, "new")
        /\ ret' = [op |-> "new", node |-> i, value |-> Len(nodes) + 1]

Clone(paths, includeBatches) ==
    \E i \in NodeIds, path \in paths, includeBatch \in includeBatches :
        /\ clone(i, path, includeBatch)
        /\ Born(i, "clone")
        /\ ret' = [op |-> "clone", node |-> i, value |-> Len(nodes) + 1]

GetParent(paths, batchArgs) ==
    \E i \in NodeIds :
    \E baseUrl \in {BaseString(nodes[i].parentUrl)} \cup {BaseNode(b) : b \in NodeIds},
       path \in paths, batchArg \in batchArgs :
        /\ Alloc(getParent(i, baseUrl, path, batchArg))
        /\ Born(i, "getParent")
        /\ ret' = [op |-> "getParent", node |-> i, value |-> Len(nodes) + 1]

As ==
    \E i \in NodeIds :
        /\ Alloc(as(i))
        /\ Born(i, "as")
        /\ ret' = [op |-> "as", node |-> i, value |-> Len(nodes) + 1]

\* a fluent call on node i: its accumulator becomes q, it returns this
Fluent(i, op, q) ==
    /\ dicts' = [dicts EXCEPT ![nodes[i].query] = q]
    /\ ret' = [op |-> op, node |-> i, value |-> i]
    /\ UNCHANGED <<nodes, opts, origin, bld>>

Counted == hist' = [hist EXCEPT !.n = @ + 1]

Filter(filters) ==
    \E i \in NodeIds, f \in filters :
        Fluent(i, "filter", filter(Query(i), f)) /\ Counted

Select(selectArgs) ==
    \E i \in NodeIds, selects \in selectArgs :
        Fluent(i, "select", select(Query(i), selects)) /\ Counted

Expand(expandArgs) ==
    \E i \in NodeIds, expands \in expandArgs :
        Fluent(i, "expand", expand(Query(i), expands)) /\ Counted

OrderBy(fields, ascendingArgs) ==
    \E i \in NodeIds, field \in fields, args \in ascendingArgs :
        /\ Fluent(i, "orderBy", orderBy(Query(i), field, args))
        /\ hist' = [hist EXCEPT !.n = @ + 1,
                                !.orderBy[i] = Append(@, <<field, args>>)]

Skip(skips) ==
    \E i \in NodeIds, n \in skips :
        Fluent(i, "skip", skip(Query(i), n)) /\ Counted

Top(tops) ==
    \E i \in NodeIds, n \in tops :
        Fluent(i, "top", top(Query(i), n)) /\ Counted

----------------------------------------------------------------------------
(* Specification of derivation: a root node with or without an "@target"   *)
(* entry, and chains of nodes derived by the constructor, clone, getParent *)
(* and the as-cast.                                                        *)

WithTarget(q) == DictAdd(q, AtTarget, TargetUrl)

DeriveQueries ==
    {EmptyDict, WithTarget(EmptyDict),
     WithTarget(filter(EmptyDict, FilterText)),
     filter(WithTarget(EmptyDict), FilterText)}

DeriveInit == RootInit(DeriveQueries, {EmptyOptions, Credentials}, {NoBatch, BatchOne})

DeriveNew == Len(nodes) < MaxNodes /\ NewFromNode({Undefined, Versions})

DeriveClone == Len(nodes) < MaxNodes /\ Clone({Undefined, Versions}, BOOLEAN)

DeriveGetParent ==
    Len(nodes) < MaxNodes /\ GetParent({Undefined}, {Undefined, <<BatchOne>>})

DeriveAs == Len(nodes) < MaxNodes /\ As

DeriveNext == DeriveNew \/ DeriveClone \/ DeriveGetParent \/ DeriveAs

SpecDerive == DeriveInit /\ [][DeriveNext]_vars

HasTarget(i) == DictHas(Query(i), AtTarget)

\* C4: a node derived by clone, getParent or the as-cast from a node that
\* holds an "@target" entry holds an "@target" entry with the same value,
\* through any chain of such derivations.
C4_TargetPropagates ==
    \A j \in NodeIds :
        (origin[j].how \in {"clone", "getParent", "as"} /\ HasTarget(origin[j].from)) =>
            /\ HasTarget(j)
            /\ DictGet(Query(j), AtTarget) = DictGet(Query(origin[j].from), AtTarget)

\* a chain: a clone of a node with "@target", and a parent derived from it
C4_Witness ==
    \E j, k \in NodeIds :
        /\ origin[j].how = "clone" /\ origin[j].from = 1
        /\ origin[k].how = "getParent" /\ origin[k].from = j
        /\ DictGet(Query(1), AtTarget) = TargetUrl
        /\ DictGet(Query(k), AtTarget) = TargetUrl

----------------------------------------------------------------------------
(* Specification of copy-on-derivation: nodes made from a node by the      *)
(* constructor or by clone, with fluent calls on any node before and after *)

FrameInit == RootInit({EmptyDict, WithTarget(EmptyDict)}, {Credentials}, {NoBatch, BatchOne})

FrameNew == Len(nodes) < MaxFrameNodes /\ NewFromNode({Versions})

FrameClone == Len(nodes) < MaxFrameNodes /\ Clone({Undefined}, {TRUE})

FrameFilter == hist.n < MaxFluent /\ Filter({FilterText})

FrameSelect == hist.n < MaxFluent /\ Select({<<>>, <<Title, Id>>})

FrameExpand == hist.n < MaxFluent /\ Expand({<<Id>>})

FrameOrderBy == hist.n < MaxFluent /\ OrderBy({Title}, {<<>>})

FrameSkip == hist.n < MaxFluent /\ Skip({12})

FrameTop == hist.n < MaxFluent /\ Top({5})

FrameNext ==
    \/ FrameNew
    \/ FrameClone
    \/ FrameFilter
    \/ FrameSelect
    \/ FrameExpand
    \/ FrameOrderBy
    \/ FrameSkip
    \/ FrameTop

SpecFrame == FrameInit /\ [][FrameNext]_vars

FluentOps == {"filter", "select", "expand", "orderBy", "skip", "top"}

\* right after a derivation the new node holds its own Dictionary and its
\* own options object, equal in content to the base node's
CopiedByValue ==
    ret.op \in {"new", "clone"} =>
        /\ nodes[ret.value].query # nodes[ret.node].query
        /\ nodes[ret.value].options # nodes[ret.node].options
        /\ Query(ret.value) = Query(ret.node)
        /\ Options(ret.value) = Options(ret.node)

\* a fluent call on one node leaves every other node's query and options as
\* they were
OthersUnchanged ==
    ret'.op \in FluentOps =>
        \A j \in NodeIds :
            j # ret'.node =>
                /\ dicts'[nodes'[j].query] = dicts[nodes[j].query]
                /\ opts'[nodes'[j].options] = opts[nodes[j].options]

\* C5: a node made from a node (constructor with a node base, or clone) gets
\* a by-value copy of the base's query entries and options as they are at
\* derivation time, and afterwards fluent calls on either node leave the
\* other's query and options unchanged.
C5_CopyOnDerive == [](CopiedByValue) /\ [][OthersUnchanged]_vars

\* the base is mutated after a clone that copied an earlier entry
C5_Witness ==
    \E j \in NodeIds :
        /\ origin[j].how = "clone" /\ origin[j].from = 1
        /\ DictHas(Query(j), FilterKey)
        /\ ~DictHas(Query(j), OrderByKey)
        /\ DictHas(Query(1), OrderByKey)
        /\ ret.op = "orderBy" /\ ret.node = 1

----------------------------------------------------------------------------
(* Specification of the fluent modifiers on one collection node built from *)
(* a string                                                                *)

OrderInit == RootInit({EmptyDict, WithTarget(EmptyDict)}, {EmptyOptions}, {NoBatch})

OrderFilter == hist.n < MaxOrderCalls /\ Filter({FilterText})

OrderSelect == hist.n < MaxOrderCalls /\ Select({<<Title, Id>>})

OrderExpand == hist.n < MaxOrderCalls /\ Expand({<<Id>>})

OrderOrderBy ==
    hist.n < MaxOrderCalls /\ OrderBy({Title, Created}, {<<>>, <<TRUE>>, <<FALSE>>})

OrderSkip == hist.n < MaxOrderCalls /\ Skip({12})

OrderTop == hist.n < MaxOrderCalls /\ Top({5})

OrderNext ==
    \/ OrderFilter
    \/ OrderSelect
    \/ OrderExpand
    \/ OrderOrderBy
    \/ OrderSkip
    \/ OrderTop

SpecOrder == OrderInit /\ [][OrderNext]_vars

\* the clause the claim gives for one call orderBy(field, ascending)
ClauseOfCall(call) ==
    call[1] \o <<" ">> \o (IF call[2] = <<FALSE>> THEN <<"d", "e", "s", "c">>
                           ELSE <<"a", "s", "c">>)

RECURSIVE CommaJoinOfCalls(_)
CommaJoinOfCalls(calls) ==
    IF Len(calls) = 1 THEN ClauseOfCall(calls[1])
    ELSE CommaJoinOfCalls(SubSeq(calls, 1, Len(calls) - 1))
             \o <<",">> \o ClauseOfCall(calls[Len(calls)])

TitleAscCreatedDesc ==
    <<"T", "i", "t", "l", "e", " ", "a", "s", "c", ",",
      "C", "r", "e", "a", "t", "e", "d", " ", "d", "e", "s", "c">>

\* C6: after n >= 1 calls orderBy(field_i, ascending_i) on a node, among any
\* other fluent calls, the accumulator holds exactly one "$orderby" key and
\* its value is the comma-join, in call order, of "<field_i> asc" (ascending
\* true or omitted) or "<field_i> desc" (ascending false).
C6_OrderByAccumulates ==
    \A i \in NodeIds :
        hist.orderBy[i] # <<>> =>
            /\ Cardinality({k \in DOMAIN Query(i) : Query(i)[k][1] = OrderByKey}) = 1
            /\ DictGet(Query(i), OrderByKey) = CommaJoinOfCalls(hist.orderBy[i])
            /\ hist.orderBy[i] = << <<Title, <<>> >>, <<Created, <<FALSE>> >> >> =>
                   DictGet(Query(i), OrderByKey) = TitleAscCreatedDesc

\* orderBy("Title"), another fluent call, then orderBy("Created", false)
C6_Witness ==
    /\ hist.orderBy[1] = << <<Title, <<>> >>, <<Created, <<FALSE>> >> >>
    /\ hist.n = 3
    /\ ret.op = "orderBy"
    /\ DictGet(Query(1), OrderByKey) = TitleAscCreatedDesc

----------------------------------------------------------------------------
(* toUrlAndQuery: the aliased-parameter rewrite and the query string *)

\* characters the regular expression's . does not match
LineTerminators == {"\n", "\r"}

Min(S) == CHOOSE x \in S : \A y \in S : x <= y

NoLineTerminator(s, a, b) == \A x \in a..b : s[x] \notin LineTerminators

\* with "::" at j, the positions at which (.*?)' can end: lazily the first
Closings(s, j) ==
    {k \in (j + 2)..Len(s) : s[k] = "'" /\ NoLineTerminator(s, j + 2, k - 1)}

\* with '!@ at i, the positions of "::" at which the rest of the pattern
\* matches: (@.*?) lazily takes the first
Separators(s, i) ==
    {j \in (i + 3)..(Len(s) - 1) :
        /\ s[j] = ":" /\ s[j + 1] = ":"
        /\ NoLineTerminator(s, i + 3, j - 1)
        /\ Closings(s, j) # {}}

\* one attempt of /'!(@.*?)::(.*?)'/ at position i
matchAt(s, i) ==
    IF /\ i + 2 <= Len(s)
       /\ s[i] = "'" /\ s[i + 1] = "!" /\ s[i + 2] = "@"
       /\ Separators(s, i) # {}
    THEN LET j == Min(Separators(s, i))
             k == Min(Closings(s, j))
         IN  [found |-> TRUE, from |-> i, to |-> k,
              labelName |-> SubSeq(s, i + 2, j - 1),
              value |-> SubSeq(s, j + 2, k - 1)]
    ELSE [found |-> FALSE]

Quoted(value) == <<"'">> \o value \o <<"'">>

\* String.prototype.replace with the g flag and the callback of
\* toUrlAndQuery: acc is the text produced so far, the aliases added so far
\* and the matches the callback was called with
RECURSIVE replaceFrom(_, _, _)
replaceFrom(s, i, acc) ==
    IF i > Len(s) THEN acc
    ELSE LET m == matchAt(s, i)
         IN  IF m.found
             THEN replaceFrom(s, m.to + 1,
                      [url |-> acc.url \o m.labelName,
                       aliasedParams |-> DictAdd(acc.aliasedParams, m.labelName,
                                                 Quoted(m.value)),
                       matches |-> Append(acc.matches, m)])
             ELSE replaceFrom(s, i + 1, [acc EXCEPT !.url = Append(@, s[i])])

replaceAliases(s) ==
    replaceFrom(s, 1, [url |-> <<>>, aliasedParams |-> EmptyDict, matches |-> <<>>])

\* ODataQueryable.toUrl()
toUrl(i) == nodes[i].url

KeyValue(d, k) == d[k][1] \o <<"=">> \o d[k][2]

QueryString(d) == join([k \in DOMAIN d |-> KeyValue(d, k)], <<"&">>)

\* a toUrlAndQuery that collects the aliases in the node's own accumulator
toUrlAndQuery_intoQuery(i) ==
    LET r == replaceAliases(toUrl(i))
        aliasedParams == DictMerge(Query(i), r.aliasedParams)
    IN  [value |-> IF DictCount(aliasedParams) > 0
                   THEN r.url \o <<"?">> \o QueryString(aliasedParams)
                   ELSE r.url,
         query |-> aliasedParams,
         matches |-> r.matches,
         aliases |-> r.aliasedParams]

\* toUrlAndQuery(): the string returned, the node's accumulator after the
\* call, and what the replace callback saw
toUrlAndQuery(i) ==
    LET r == replaceAliases(toUrl(i))
        aliasedParams == DictMerge(r.aliasedParams, Query(i))
    IN  [value |-> IF DictCount(aliasedParams) > 0
                   THEN r.url \o <<"?">> \o QueryString(aliasedParams)
                   ELSE r.url,
         query |-> Query(i),
         matches |-> r.matches,
         aliases |-> r.aliasedParams]

ToUrlAndQuery ==
    \E i \in NodeIds :
        LET r == toUrlAndQuery(i)
        IN  /\ dicts' = [dicts EXCEPT ![nodes[i].query] = r.query]
            /\ ret' = [op |-> "toUrlAndQuery", node |-> i, value |-> r.value,
                       matches |-> r.matches, aliases |-> r.aliases]
            /\ hist' = [hist EXCEPT
                           !.calls = @ + 1,
                           !.prev = IF ret.op = "toUrlAndQuery" /\ ret.node = i
                                    THEN ret.value ELSE Undefined]
            /\ UNCHANGED <<nodes, opts, origin, bld>>

----------------------------------------------------------------------------
(* Specification of serialization: one node whose url is a string base     *)
(* combined with a path made of fragments (embedded-label tokens, broken   *)
(* tokens, plain text), serialized repeatedly among fluent calls.          *)

Web == <<"w", "e", "b">>

Token(label, value) ==
    [kind |-> "token", text |-> <<"'", "!">> \o label \o <<":", ":">> \o value \o <<"'">>,
     label |-> label, value |-> value]

\* a token without "::", and a token without its closing quote
NoSeparator(label) ==
    [kind |-> "malformed", text |-> <<"'", "!">> \o label \o <<"'">>,
     label |-> label, value |-> <<>>]

Unterminated(label, value) ==
    [kind |-> "malformed", text |-> <<"'", "!">> \o label \o <<":", ":">> \o value,
     label |-> label, value |-> value]

Plain(text) == [kind |-> "text", text |-> text, label |-> <<>>, value |-> <<>>]

LabelP1 == <<"@", "p", "1">>
TokenP1 == Token(LabelP1, <<"a", " ", "b">>)
TokenQ == Token(<<"@", "q">>, <<"c">>)
TokenP1Again == Token(LabelP1, <<"z">>)
BrokenNoSeparator == NoSeparator(<<"@", "m">>)
BrokenUnterminated == Unterminated(<<"@", "u">>, <<"x">>)
PlainPath == Plain(<<"a", "/", "b">>)
PlainQuoted == Plain(<<"(", "'", "k", "'", ")">>)

Fragments ==
    {TokenP1, TokenQ, TokenP1Again, BrokenNoSeparator, BrokenUnterminated,
     PlainPath, PlainQuoted}

RECURSIVE TextOf(_)
TextOf(frags) == IF frags = <<>> THEN <<>> ELSE frags[1].text \o TextOf(Tail(frags))

SelectTitleId == select(EmptyDict, <<Title, Id>>)

SerQueries ==
    {EmptyDict, SelectTitleId,
     DictAdd(SelectTitleId, LabelP1, <<"'", "o", "w", "n", "'">>)}

SerInit ==
    \E frags \in SeqsUpTo(Fragments, MaxFrags), q \in SerQueries :
        LET r == newFromString(Web, TextOf(frags))
        IN  /\ nodes = <<[url |-> r.url, parentUrl |-> r.parentUrl, query |-> 1,
                          options |-> 1, batch |-> NoBatch, useCaching |-> FALSE,
                          cachingOptions |-> Null]>>
            /\ dicts = <<q>>
            /\ opts = <<EmptyOptions>>
            /\ ret = [op |-> "none"]
            /\ origin = <<[from |-> 0, how |-> "string"]>>
            /\ hist = [NoHist EXCEPT !.orderBy = << <<>> >>, !.frags = frags]
            /\ bld = NoBuild

SerToUrlAndQuery == hist.calls < MaxSerCalls /\ ToUrlAndQuery

SerFilter == hist.n < MaxSerFluent /\ Filter({FilterText})

SerOrderBy == hist.n < MaxSerFluent /\ OrderBy({Title}, {<<FALSE>>})

SerNext ==
    \/ SerToUrlAndQuery
    \/ SerFilter
    \/ SerOrderBy

SpecSer == SerInit /\ [][SerNext]_vars

\* the call changes nothing of the node
NodeUntouched ==
    ret'.op = "toUrlAndQuery" => nodes' = nodes /\ dicts' = dicts /\ opts' = opts

\* a call right after a call returns the same string
SameAsPrevious ==
    (ret.op = "toUrlAndQuery" /\ hist.prev # Undefined) => ret.value = hist.prev

\* C8: toUrlAndQuery leaves the node's url, parentUrl, accumulator (keys,
\* values, key order) and options unchanged, so two consecutive calls with
\* no fluent mutation in between return identical strings, also when the url
\* holds aliased-parameter tokens.
C8_SerializeIsPure == [](SameAsPrevious) /\ [][NodeUntouched]_vars

\* a second call in a row, on a url with a token and a non-empty accumulator
C8_Witness ==
    /\ ret.op = "toUrlAndQuery"
    /\ hist.prev # Undefined
    /\ ret.value = hist.prev
    /\ ret.matches # <<>>
    /\ Query(1) = SelectTitleId

\* the claim's reading of serialization, on the fragments the url was made
\* of: a token becomes its label and registers label='value', anything else
\* stays as it is
RECURSIVE RewrittenBody(_)
RewrittenBody(frags) ==
    IF frags = <<>> THEN <<>>
    ELSE (IF frags[1].kind = "token" THEN frags[1].label ELSE frags[1].text)
             \o RewrittenBody(Tail(frags))

RECURSIVE RegisteredAliases(_, _)
RegisteredAliases(frags, d) ==
    IF frags = <<>> THEN d
    ELSE RegisteredAliases(Tail(frags),
             IF frags[1].kind = "token"
             THEN DictAdd(d, frags[1].label, Quoted(frags[1].value))
             ELSE d)

Serialized(frags, q) ==
    LET body == IF frags = <<>> THEN Web ELSE Web \o <<"/">> \o RewrittenBody(frags)
        pairs == DictMerge(RegisteredAliases(frags, EmptyDict), q)
    IN  IF pairs = <<>> THEN body
        ELSE body \o <<"?">> \o QueryString(pairs)

\* C7: toUrlAndQuery replaces every well-formed token by its bare label and
\* registers label='value', merges the accumulator afterwards (its value
\* wins on a key equal to a label), and returns the rewritten url followed
\* by '?' and the key=value pairs joined by '&' in first-seen order, with no
\* '?' when there is no pair.
C7_SerializeRewritesTokens ==
    ret.op = "toUrlAndQuery" => ret.value = Serialized(hist.frags, Query(ret.node))

\* the same on urls that hold no malformed token
C7_OnWellFormedUrls ==
    (\A f \in DOMAIN hist.frags : hist.frags[f].kind # "malformed") =>
        C7_SerializeRewritesTokens

\* where fragment f lies in the url
FragFrom(f) == Len(Web) + 1 + Len(TextOf(SubSeq(hist.frags, 1, f - 1))) + 1
FragTo(f) == Len(Web) + 1 + Len(TextOf(SubSeq(hist.frags, 1, f)))

\* C10: a malformed token (no "::", or no closing quote of its own) is left
\* in the output verbatim and registers no alias, whatever stands before or
\* after it: no rewrite touches any of its characters.
C10_MalformedLeftVerbatim ==
    ret.op = "toUrlAndQuery" =>
        \A f \in DOMAIN hist.frags :
            hist.frags[f].kind = "malformed" =>
                \A m \in DOMAIN ret.matches :
                    ret.matches[m].to < FragFrom(f) \/ ret.matches[m].from > FragTo(f)


----------------------------------------------------------------------------
(* toRequestContext.  The call runs to the suspension at toAbsoluteUrl;    *)
(* the promise it waits for is settled by the resolver; the reaction to    *)
(* the settlement assembles the context or passes the rejection on.        *)

\* the release function of a node that is in no batch: () => { return; }
Noop == [fn |-> "noop", dependency |-> 0]

\* the function that releases the batch's dependency number n
Release(n) == [fn |-> "release", dependency |-> n]

Pending == [state |-> "pending"]

\* SPBatch.addDependency(): registers one dependency and returns the
\* function that releases it, here the registration's number
addDependency(batch) ==
    [batch |-> [batch EXCEPT !.registered = @ + 1],
     release |-> Release(batch.registered + 1)]

\* ODataQueryable.addBatchDependency() on a node that has a batch
addBatchDependency(b) == addDependency(b.batch)

\* the resolver: the url itself when absolute, else under the site's url
SiteUrl == <<"h", "t", "t", "p", "s", ":", "/", "/", "h">>

toAbsoluteUrl(candidate) ==
    IF isUrlAbsolute(candidate) THEN candidate ELSE combinePaths(SiteUrl, candidate)

\* a toRequestContext that registers the dependency after it has started
\* the resolution
toRequestContextCall_late(b, i) ==
    LET dep == IF hasBatch(i) THEN addBatchDependency(b)
               ELSE [batch |-> b.batch, release |-> Noop]
    IN  [b EXCEPT !.pc = "waiting",
                  !.batch = dep.batch,
                  !.dependencyDispose = dep.release,
                  !.log = @ \o <<"toUrlAndQuery", "toAbsoluteUrl">>
                            \o (IF hasBatch(i) THEN <<"addBatchDependency">> ELSE <<>>),
                  !.candidate = toUrlAndQuery(i).value,
                  !.resolves = @ + 1]

\* toRequestContext up to the suspension: dependencyDispose, then
\* toAbsoluteUrl(this.toUrlAndQuery())
toRequestContextCall(b, i) ==
    LET dep == IF hasBatch(i) THEN addBatchDependency(b)
               ELSE [batch |-> b.batch, release |-> Noop]
    IN  [b EXCEPT !.pc = "waiting",
                  !.batch = dep.batch,
                  !.dependencyDispose = dep.release,
                  !.log = @ \o (IF hasBatch(i) THEN <<"addBatchDependency">> ELSE <<>>)
                            \o <<"toUrlAndQuery", "toAbsoluteUrl">>,
                  !.candidate = toUrlAndQuery(i).value,
                  !.resolves = @ + 1]

isCached_anyCase(verb, useCaching) == EqualsIgnoreCase(verb, <<"g", "e", "t">>)

\* /^get$/i.test(verb) && this._useCaching
isCached(verb, useCaching) == EqualsIgnoreCase(verb, <<"g", "e", "t">>) /\ useCaching

\* the callback given to then(), called with the absolute url; guid is the
\* value of getGUID()
thenCallback(b, i, url, guid) ==
    LET options == mergeOptions(b.options, Options(i))
        context == [batch |-> nodes[i].batch,
                    batchDependency |-> b.dependencyDispose,
                    cachingOptions |-> nodes[i].cachingOptions,
                    isBatched |-> hasBatch(i),
                    isCached |-> isCached(b.verb, nodes[i].useCaching),
                    options |-> options,
                    parser |-> b.parser,
                    pipeline |-> b.pipeline,
                    requestAbsoluteUrl |-> url,
                    requestId |-> guid,
                    verb |-> b.verb]
    IN  [b EXCEPT !.pc = "done",
                  !.options = options,
                  !.log = Append(@, "assemble"),
                  !.contexts = Append(@, context),
                  !.result = [state |-> "fulfilled", value |-> context]]

\* a builder that answers a rejection with what it has
thenRejected_partial(b, reason) ==
    LET context == [batchDependency |-> b.dependencyDispose, verb |-> b.verb]
    IN  [b EXCEPT !.pc = "done",
                  !.contexts = Append(@, context),
                  !.result = [state |-> "fulfilled", value |-> context]]

\* then() is given no rejection handler: the promise toRequestContext
\* returned is rejected with the same reason
thenRejected(b, reason) ==
    [b EXCEPT !.pc = "done", !.result = [state |-> "rejected", value |-> reason]]

Verbs ==
    {<<"G", "E", "T">>, <<"g", "e", "t">>, <<"G", "e", "t">>, <<"P", "O", "S", "T">>,
     <<"G", "E", "T", "S">>, <<"A", "G", "E", "T">>, <<"g", "e">>, <<>>,
     <<"g", "e", "t", "\n">>}

BuildUrls == {ListItem, AbsoluteSite \o <<"/">> \o TokenP1.text}

Errors == {"network", "config"}

Guids == {"guid-1", "guid-2"}

BuildInit ==
    /\ \E url \in BuildUrls, q \in {EmptyDict, SelectTitleId}, b \in {NoBatch, BatchOne},
          useCaching \in BOOLEAN :
          LET r == newFromString(url, Undefined)
          IN  /\ nodes = <<[url |-> r.url, parentUrl |-> r.parentUrl, query |-> 1,
                            options |-> 1, batch |-> b, useCaching |-> useCaching,
                            cachingOptions |-> Null]>>
              /\ dicts = <<q>>
    /\ opts = <<Credentials>>
    /\ ret = [op |-> "none"]
    /\ origin = <<[from |-> 0, how |-> "string"]>>
    /\ hist = [NoHist EXCEPT !.orderBy = << <<>> >>]
    /\ \E verb \in Verbs, prior \in 0..MaxPrior,
          options \in {EmptyOptions, [EmptyOptions EXCEPT !["mode"] = "cors"]} :
          bld = [pc |-> "idle", node |-> 1, verb |-> verb, options |-> options,
                 parser |-> "parser", pipeline |-> "pipeline",
                 batch |-> [registered |-> prior, released |-> {}],
                 prior |-> prior,
                 dependencyDispose |-> Noop,
                 candidate |-> Undefined,
                 log |-> <<>>,
                 resolves |-> 0,
                 absolute |-> Pending,
                 contexts |-> <<>>,
                 result |-> Pending]

BuildFrame == UNCHANGED <<nodes, dicts, opts, ret, origin, hist>>

ToRequestContext ==
    /\ bld.pc = "idle"
    /\ bld' = toRequestContextCall(bld, bld.node)
    /\ BuildFrame

AbsoluteUrlResolved ==
    /\ bld.pc = "waiting"
    /\ bld' = [bld EXCEPT !.pc = "settled",
                          !.log = Append(@, "resolved"),
                          !.absolute = [state |-> "fulfilled",
                                        value |-> toAbsoluteUrl(bld.candidate)]]
    /\ BuildFrame

AbsoluteUrlRejected ==
    /\ bld.pc = "waiting"
    /\ \E reason \in Errors :
          bld' = [bld EXCEPT !.pc = "settled",
                             !.log = Append(@, "rejected"),
                             !.absolute = [state |-> "rejected", value |-> reason]]
    /\ BuildFrame

ThenCallback ==
    /\ bld.pc = "settled"
    /\ bld.absolute.state = "fulfilled"
    /\ \E guid \in Guids : bld' = thenCallback(bld, bld.node, bld.absolute.value, guid)
    /\ BuildFrame

ThenRejected ==
    /\ bld.pc = "settled"
    /\ bld.absolute.state = "rejected"
    /\ bld' = thenRejected(bld, bld.absolute.value)
    /\ BuildFrame

\* the caller, holding the context, calls its batchDependency
CallerRelease ==
    /\ bld.pc = "done"
    /\ bld.result.state = "fulfilled"
    /\ LET release == bld.result.value.batchDependency
       IN  bld' = [bld EXCEPT !.pc = "released",
                              !.batch.released =
                                  IF release = Noop THEN @
                                  ELSE @ \cup {release.dependency}]
    /\ BuildFrame

BuildNext ==
    \/ ToRequestContext
    \/ AbsoluteUrlResolved
    \/ AbsoluteUrlRejected
    \/ ThenCallback
    \/ ThenRejected
    \/ CallerRelease

SpecBuild == BuildInit /\ [][BuildNext]_vars

Count(log, e) == Cardinality({k \in DOMAIN log : log[k] = e})

Occurs(log, e) == \E k \in DOMAIN log : log[k] = e

Precedes(log, a, b) ==
    \A i \in DOMAIN log, j \in DOMAIN log : (log[i] = a /\ log[j] = b) => i < j

\* C1: on a node with a batch the dependency is registered exactly once,
\* before the absolute-url resolution starts, the resolution completes
\* before the context is assembled, the context's batchDependency is the
\* function that registration returned and the builder never calls it; on a
\* node without a batch nothing is registered and batchDependency is a
\* no-op.
C1_DependencyBeforeResolution ==
    bld.pc # "idle" =>
        /\ Count(bld.log, "toAbsoluteUrl") = 1
        /\ Precedes(bld.log, "toAbsoluteUrl", "resolved")
        /\ Precedes(bld.log, "resolved", "assemble")
        /\ Occurs(bld.log, "assemble") => Occurs(bld.log, "resolved")
        /\ bld.pc # "released" => bld.batch.released = {}
        /\ IF hasBatch(bld.node)
           THEN /\ Count(bld.log, "addBatchDependency") = 1
                /\ bld.batch.registered = bld.prior + 1
                /\ Precedes(bld.log, "addBatchDependency", "toAbsoluteUrl")
                /\ \A c \in DOMAIN bld.contexts :
                       bld.contexts[c].batchDependency = Release(bld.prior + 1)
                /\ bld.pc = "released" => bld.batch.released = {bld.prior + 1}
           ELSE /\ Count(bld.log, "addBatchDependency") = 0
                /\ bld.batch.registered = bld.prior
                /\ \A c \in DOMAIN bld.contexts :
                       bld.contexts[c].batchDependency = Noop
                /\ bld.batch.released = {}

\* a build on a node in a batch that already had a dependency, completed,
\* its release function called by the caller
C1_Witness ==
    /\ bld.pc = "released"
    /\ hasBatch(bld.node)
    /\ bld.prior = 1
    /\ bld.log = <<"addBatchDependency", "toUrlAndQuery", "toAbsoluteUrl",
                   "resolved", "assemble">>
    /\ bld.batch.released = {2}

VerbIsGet(verb) ==
    /\ Len(verb) = 3
    /\ verb[1] \in {"g", "G"} /\ verb[2] \in {"e", "E"} /\ verb[3] \in {"t", "T"}

\* C2: the context's isCached is true exactly when the verb is GET in any
\* letter case (the whole string) and the node's use-caching flag is set;
\* for any other verb it is false whatever the flag.
C2_CachedOnlyForGet ==
    \A c \in DOMAIN bld.contexts :
        /\ bld.contexts[c].isCached = (VerbIsGet(bld.verb) /\ nodes[bld.node].useCaching)
        /\ bld.verb = <<"P", "O", "S", "T">> => bld.contexts[c].isCached = FALSE
        /\ (bld.verb = <<"G", "E", "T">> /\ nodes[bld.node].useCaching) =>
               bld.contexts[c].isCached = TRUE

C2_Witness ==
    /\ bld.pc = "done"
    /\ bld.verb = <<"G", "e", "t">>
    /\ nodes[bld.node].useCaching
    /\ bld.contexts[1].isCached = TRUE

\* C9: when the absolute-url resolution rejects, the promise returned by
\* toRequestContext is rejected with that reason, no context is produced,
\* and the resolution is not tried again, with or without a batch.
C9_RejectionPropagates ==
    (bld.pc # "idle" /\ bld.absolute.state = "rejected") =>
        /\ bld.contexts = <<>>
        /\ bld.resolves = 1
        /\ Count(bld.log, "toAbsoluteUrl") = 1
        /\ bld.result.state # "fulfilled"
        /\ bld.pc = "done" => bld.result = [state |-> "rejected",
                                            value |-> bld.absolute.value]
        /\ bld.pc \in {"settled", "done"}

C9_Witness ==
    /\ bld.pc = "done"
    /\ hasBatch(bld.node)
    /\ bld.absolute = [state |-> "rejected", value |-> "network"]
    /\ bld.result = [state |-> "rejected", value |-> "network"]
    /\ bld.contexts = <<>>

====
